---- MODULE Spec2Model ----
\* A model of software/reachy/parts/motor.py: the OrbitaActuator (three-disk
\* spherical actuator) with its setters, point_at, orient, setup and the
\* homing procedure, run against a motor bus whose accesses may fail, and
\* the DynamixelMotor with its frame transform and goto.
EXTENDS Integers, Sequences, FiniteSets, TLC

\* ---------------------------------------------------------------- bounds
\* polls the stall loop of one homing call may make under Spec
MaxPolls == 2
\* bus faults (a disk module not answering an access) in one behaviour
MaxFailures == 1

\* largest offset of a DynamixelMotor, either sign
MaxOffset == 10
\* largest position the frame transform is applied to, either sign
MaxPosition == 50

\* ------------------------------------------------------ program constants
\* deque([], 10)
WindowLen == 10
\* self._moving_speed = 50
DefaultMovingSpeed == 50
\* def homing(self, speed=50, limit_pos=-270, target_pos=102)
DefaultHomingSpeed == 50
DefaultLimitPos == -270
DefaultTargetPos == 102

\* ------------------------------------------------------------ rationals
\* Python floats are modelled as exact fractions <<numerator, denominator>>
\* in lowest terms with a positive denominator.
Abs(x) == IF x < 0 THEN -x ELSE x

RECURSIVE GCD(_, _)
GCD(a, b) == IF b = 0 THEN a ELSE GCD(b, a % b)

Frac(n, d) ==
  LET s == IF d < 0 THEN -1 ELSE 1
      g == GCD(Abs(n), Abs(d))
  IN  << (s * n) \div g, (s * d) \div g >>

FracAdd(x, y) == Frac(x[1] * y[2] + y[1] * x[2], x[2] * y[2])

IsNeg(x) == x[1] < 0

IsPos(x) == x[1] > 0

\* ------------------------------------------------------------ input sets
\* the three disk modules handed to the constructor, by position in the tuple
luos_disks_motor == << "h0", "h1", "h2" >>

Handles == { luos_disks_motor[i] : i \in 1..3 }

\* outputs of the kinematics solver (an external collaborator)
ThetaTriples == { << -1, 2, 3 >> }

\* present positions read from the three disks, in disk order
PositionReads == { << 0, 1, -2 >> }

\* values given to the moving_speed setter, to setup and to homing
SpeedValues == { DefaultHomingSpeed, 20 }

LimitPositions == { DefaultLimitPos }

TargetPositions == { DefaultTargetPos }

\* durations given to orient; -1 is the default
OrientDurations == { Frac(-1, 1), Frac(0, 1), Frac(2, 1) }

\* velocities read from the three disks in one poll (in disk order), Spec
PollSamples == { << -1, -1, -1 >>, << 0, 0, 0 >>, << 1, 0, -1 >>, << 0, 1, 1 >> }

\* velocities read from the three disks in one poll (in disk order), SpecStall
StallSamples == { << -1, -1, -1 >>, << 1, 0, -1 >>, << 0, 1, 1 >> }

\* config['offset'] of a DynamixelMotor
Offsets == -MaxOffset..MaxOffset

\* positions the frame transform is applied to
Positions == -MaxPosition..MaxPosition

\* the DynamixelMotors constructed: config['offset'] and whether
\* config['orientation'] is 'direct'
MotorConfigs == { [offset |-> 0, direct |-> TRUE], [offset |-> 10, direct |-> TRUE],
                  [offset |-> 10, direct |-> FALSE], [offset |-> -3, direct |-> FALSE] }

\* raw positions the luos motor returns as rot_position
RawPositions == { 0, 40 }

\* local positions given to the goal_position setter and to goto
LocalPositions == { -50, 30 }

\* durations given to goto
GotoDurations == { 2 }

\* names given to goto as interpolation_mode
ModeNames == { "linear", "minjerk", "bogus" }

\* names given to goto as starting_point
StartingPoints == { "present_position", "goal_position" }

VARIABLES
  disk_bottom, disk_middle, disk_top, \* OrbitaActuator's disk handles
  compliancy,                         \* self._compliancy
  moving_speed,                       \* self._moving_speed (a fraction)
  hw,                                 \* the registers of each disk module
  recent_speed,                       \* homing's deque of velocity samples
  locals,                             \* homing's arguments
  pc,                                 \* "idle", or the homing phase to run next
  op,                                 \* the operation called last
  result,                             \* how it ended, "running" while it has not
  log,                                \* its bus accesses, sleeps and calls, in order
  thetas,                             \* what the solver returned to this operation
  polls,                              \* polls made by the stall loop of this homing
  nonnegRun,                          \* latest consecutive polls with no negative sample
  staleNeg,                           \* a negative sample has left the window
  failures,                           \* bus accesses that have failed so far
  orient_args,                        \* duration and wait of the orient call of this operation
  offset, direct,                     \* DynamixelMotor's _offset and _direct
  motor_hw,                           \* the registers of its luos motor
  mop,                                \* the DynamixelMotor operation called last
  margs,                              \* its arguments
  mresult,                            \* how it ended
  mret,                               \* what it returned, or the error's message
  mlog                                \* its bus accesses and generator calls, in order

actuatorVars == << disk_bottom, disk_middle, disk_top, compliancy, moving_speed, hw,
                   recent_speed, locals, pc, op, result, log, thetas, polls,
                   nonnegRun, staleNeg, failures, orient_args >>

motorVars == << offset, direct, motor_hw, mop, margs, mresult, mret, mlog >>

vars == << actuatorVars, motorVars >>

MotorUnchanged == UNCHANGED motorVars

\* thetas of an operation that does not call the kinematics solver
NoThetas == << 0, 0, 0 >>

NoLocals == [speed |-> 0, limit_pos |-> 0, target_pos |-> 0]

\* orient_args of an operation that has not called orient
NoOrientArgs == [called |-> FALSE, duration |-> Frac(0, 1), wait |-> FALSE]

\* ------------------------------------------------------------- commands
\* One entry per thing an operation does, in program order.
Write(d, reg, v) == [kind |-> "write", disk |-> d, reg |-> reg, val |-> v]

\* v is the value read, "-" for the samples of the stall loop, which
\* recent_speed keeps
Read(d, reg, v) == [kind |-> "read", disk |-> d, reg |-> reg, val |-> v]

SetToZero(d) == [kind |-> "call", disk |-> d, reg |-> "setToZero", val |-> "-"]

Sleep(t) == [kind |-> "sleep", disk |-> "-", reg |-> "-", val |-> t]

Cache(field, v) == [kind |-> "cache", disk |-> "-", reg |-> field, val |-> v]

ResetLastAngles == [kind |-> "reset", disk |-> "-", reg |-> "reset_last_angles", val |-> "-"]

IsBusAccess(c) == c.kind \in { "write", "read", "call" }

\* the handles in the order the constructor received them
disks_as_passed == << disk_bottom, disk_middle, disk_top >>

\* the disks property
disks == << disk_top, disk_middle, disk_bottom >>

\* the part of the state the commands change
Self == [hw |-> hw, compliancy |-> compliancy, moving_speed |-> moving_speed]

Apply(st, c) ==
  CASE c.kind = "write" -> [st EXCEPT !.hw[c.disk][c.reg] = c.val]
    [] c.kind = "cache" -> [st EXCEPT ![c.reg] = c.val]
    [] OTHER -> st

RECURSIVE ApplyAll(_, _)
ApplyAll(st, cmds) ==
  IF cmds = << >> THEN st ELSE ApplyAll(Apply(st, Head(cmds)), Tail(cmds))

\* the commands that raise: the bus access chosen to fail, and time.sleep of
\* a negative length (ValueError)
Raising(cmds, failAt) ==
  { i \in 1..Len(cmds) :
      \/ i = failAt
      \/ cmds[i].kind = "sleep" /\ IsNeg(cmds[i].val) }

Min(S) == CHOOSE x \in S : \A y \in S : x <= y

\* index of the command that raises, 0 when none does
StopIndex(cmds, failAt) ==
  IF Raising(cmds, failAt) = {} THEN 0 ELSE Min(Raising(cmds, failAt))

\* index of the first access to disk h in cmds
FirstAccess(cmds, h) ==
  Min({ i \in 1..Len(cmds) : IsBusAccess(cmds[i]) /\ cmds[i].disk = h })

\* the accesses that may be chosen to fail, 0 for none: a disk module stops
\* answering, and the first access to it raises
FailChoices(cmds) ==
  {0} \cup (IF failures < MaxFailures
            THEN { FirstAccess(cmds, h) :
                     h \in { cmds[i].disk : i \in { j \in 1..Len(cmds) : IsBusAccess(cmds[j]) } } }
            ELSE {})

Outcome(cmds, failAt) ==
  LET stop == StopIndex(cmds, failAt)
  IN  IF stop = 0 THEN "returned"
      ELSE IF cmds[stop].kind = "sleep" THEN "ValueError"
      ELSE "HardwareIOError"

\* Runs cmds in order up to the one that raises. The log starts anew
\* (logging = "new"), goes on ("append") or is left as it is ("off").
Run(cmds, failAt, logging, nextpc) ==
  \E c \in { cmds } :
    \E stop \in { StopIndex(c, failAt) } :
      \E st \in { ApplyAll(Self, IF stop = 0 THEN c ELSE SubSeq(c, 1, stop - 1)) } :
        /\ hw' = st.hw
        /\ compliancy' = st.compliancy
        /\ moving_speed' = st.moving_speed
        /\ log' = IF logging = "off" THEN log
                  ELSE (IF logging = "append" THEN log ELSE << >>)
                         \o (IF stop = 0 THEN c ELSE SubSeq(c, 1, stop))
        /\ failures' = IF stop # 0 /\ stop = failAt THEN failures + 1 ELSE failures
        /\ pc' = IF stop = 0 THEN nextpc ELSE "idle"
        /\ result' = IF stop = 0
                     THEN (IF nextpc = "idle" THEN "returned" ELSE "running")
                     ELSE Outcome(c, failAt)

\* ------------------------------------------------------------ operations
\* OrbitaActuator.setup
\* setup writing the speed right after the zero-reference, before the delay
SetupCmdsOfSpeedBeforeDelay(d, pid, reduction, wheel_size, encoder_res, speed) ==
  << Write(d, "limit_current", Frac(4, 10)),
     Write(d, "encoder_res", encoder_res),
     Write(d, "reduction", reduction),
     Write(d, "wheel_size", wheel_size),
     Write(d, "positionPid", pid),
     Write(d, "rot_position_mode", TRUE),
     Write(d, "rot_speed_mode", TRUE),
     Write(d, "rot_position", TRUE),
     Write(d, "rot_speed", TRUE),
     SetToZero(d),
     Write(d, "target_rot_speed", speed),
     Sleep(Frac(1, 10)) >>

SetupCmdsOf(d, pid, reduction, wheel_size, encoder_res, speed) ==
  << Write(d, "limit_current", Frac(4, 10)),
     Write(d, "encoder_res", encoder_res),
     Write(d, "reduction", reduction),
     Write(d, "wheel_size", wheel_size),
     Write(d, "positionPid", pid),
     Write(d, "rot_position_mode", TRUE),
     Write(d, "rot_speed_mode", TRUE),
     Write(d, "rot_position", TRUE),
     Write(d, "rot_speed", TRUE),
     SetToZero(d),
     Sleep(Frac(1, 10)),
     Write(d, "target_rot_speed", speed) >>

SetupCmds(ds, pid, reduction, wheel_size, encoder_res, speed) ==
  SetupCmdsOf(ds[1], pid, reduction, wheel_size, encoder_res, speed)
    \o SetupCmdsOf(ds[2], pid, reduction, wheel_size, encoder_res, speed)
    \o SetupCmdsOf(ds[3], pid, reduction, wheel_size, encoder_res, speed)

\* the registers of a disk module at power-on, its compliance flag as found
PowerOn(c) ==
  [compliant |-> c, target_rot_speed |-> Frac(0, 1), target_rot_position |-> 0,
   limit_current |-> Frac(0, 1), encoder_res |-> "unset", reduction |-> "unset",
   wheel_size |-> "unset", positionPid |-> "unset",
   rot_position_mode |-> FALSE, rot_speed_mode |-> FALSE,
   rot_position |-> FALSE, rot_speed |-> FALSE]

\* OrbitaActuator.__init__ : the state once the constructor has returned
Constructed(found) ==
  ApplyAll([hw |-> [h \in Handles |-> PowerOn(found[h])],
            compliancy |-> FALSE,
            moving_speed |-> Frac(DefaultMovingSpeed, 1)],
           SetupCmds(disks, "pid", "reduction", "wheel_size", "encoder_res",
                     Frac(DefaultMovingSpeed, 1)))

InitActuator(founds) ==
  /\ disk_bottom = luos_disks_motor[1]
  /\ disk_middle = luos_disks_motor[2]
  /\ disk_top = luos_disks_motor[3]
  /\ \E found \in founds :
       /\ compliancy = Constructed(found).compliancy
       /\ moving_speed = Constructed(found).moving_speed
       /\ hw = Constructed(found).hw
  /\ recent_speed = << >>
  /\ locals = NoLocals
  /\ pc = "idle"
  /\ op = "__init__"
  /\ result = "returned"
  /\ log = SetupCmds(disks, "pid", "reduction", "wheel_size", "encoder_res",
                     Frac(DefaultMovingSpeed, 1))
  /\ thetas = NoThetas
  /\ orient_args = NoOrientArgs
  /\ polls = 0
  /\ nonnegRun = 0
  /\ staleNeg = FALSE
  /\ failures = 0

\* DynamixelMotor.__init__ with config offset off, orientation direct or
\* not (dir), on a luos motor whose target register holds target
MotorConstructed(off, dir, target) ==
  /\ offset = off
  /\ direct = dir
  /\ motor_hw = [target_rot_position |-> target]
  /\ mop = "__init__"
  /\ margs = << >>
  /\ mresult = "returned"
  /\ mret = "-"
  /\ mlog = << >>

\* the compliance flags the disk modules are found with: all off, or the
\* last module of the tuple on
FoundFlags == { [h \in Handles |-> FALSE], [h \in Handles |-> h = luos_disks_motor[3]] }

Init ==
  /\ InitActuator(FoundFlags)
  /\ MotorConstructed(0, TRUE, 0)

HomingVarsUnchanged == UNCHANGED << recent_speed, locals, polls, nonnegRun, staleNeg >>

\* homing's locals live until homing returns or raises
HomingLocals(rs, lc, pl, nr, sn) ==
  IF pc' = "idle"
  THEN /\ recent_speed' = << >>
       /\ locals' = NoLocals
       /\ polls' = 0
       /\ nonnegRun' = 0
       /\ staleNeg' = FALSE
  ELSE /\ recent_speed' = rs
       /\ locals' = lc
       /\ polls' = pl
       /\ nonnegRun' = nr
       /\ staleNeg' = sn

KeepLocals == HomingLocals(recent_speed, locals, polls, nonnegRun, staleNeg)

HandlesUnchanged == UNCHANGED << disk_bottom, disk_middle, disk_top >>

\* the compliant setter missing the last disk
CompliantCmdsTwoDisks(compliancy_) ==
  << Cache("compliancy", compliancy_) >>
    \o [i \in 1..2 |-> Write(disks[i], "compliant", compliancy_)]

\* the compliant setter writing the disks bottom first
CompliantCmdsBottomFirst(compliancy_) ==
  << Cache("compliancy", compliancy_) >>
    \o [i \in 1..3 |-> Write(disks[4 - i], "compliant", compliancy_)]

\* OrbitaActuator.compliant (setter)
CompliantCmds(compliancy_) ==
  << Cache("compliancy", compliancy_) >>
    \o [i \in 1..3 |-> Write(disks[i], "compliant", compliancy_)]

set_compliant ==
  /\ pc = "idle"
  /\ \E v \in BOOLEAN :
       \E failAt \in FailChoices(CompliantCmds(v)) :
         Run(CompliantCmds(v), failAt, "new", "idle")
  /\ op' = "set_compliant"
  /\ HomingVarsUnchanged /\ HandlesUnchanged /\ MotorUnchanged /\ thetas' = NoThetas /\ orient_args' = NoOrientArgs

\* the moving_speed setter updating its cache after the disks
MovingSpeedCmdsCacheLast(speed) ==
  [i \in 1..3 |-> Write(disks[i], "target_rot_speed", speed)]
    \o << Cache("moving_speed", speed) >>

\* OrbitaActuator.moving_speed (setter)
MovingSpeedCmds(speed) ==
  << Cache("moving_speed", speed) >>
    \o [i \in 1..3 |-> Write(disks[i], "target_rot_speed", speed)]

set_moving_speed ==
  /\ pc = "idle"
  /\ \E s \in SpeedValues :
       \E failAt \in FailChoices(MovingSpeedCmds(Frac(s, 1))) :
         Run(MovingSpeedCmds(Frac(s, 1)), failAt, "new", "idle")
  /\ op' = "set_moving_speed"
  /\ HomingVarsUnchanged /\ HandlesUnchanged /\ MotorUnchanged /\ thetas' = NoThetas /\ orient_args' = NoOrientArgs

\* point_at without the sign correction
PointAtCmdsNoNegation(th) ==
  [i \in 1..3 |-> Write(disks[i], "target_rot_position", th[i])]

\* OrbitaActuator.point_at
PointAtCmds(th) ==
  [i \in 1..3 |-> Write(disks[i], "target_rot_position", -th[i])]

point_at ==
  /\ pc = "idle"
  /\ \E th \in ThetaTriples :
       /\ thetas' = th
       /\ orient_args' = NoOrientArgs
       /\ \E failAt \in FailChoices(PointAtCmds(th)) :
            Run(PointAtCmds(th), failAt, "new", "idle")
  /\ op' = "point_at"
  /\ HomingVarsUnchanged /\ HandlesUnchanged /\ MotorUnchanged

\* OrbitaActuator.orient; positions are the rot_position values the disks
\* return when they are read
\* the speed without the absolute value
OrientSpeedSigned(q, position, duration) ==
  Frac((q - position) * duration[2], duration[1])

OrientSpeed(q, position, duration) ==
  Frac(Abs(q - position) * duration[2], duration[1])

OrientCmds(th, duration, wait, positions) ==
  (IF IsPos(duration)
   THEN [i \in 1..3 |-> Read(disks[i], "rot_position", positions[i])]
          \o [i \in 1..3 |-> Write(disks[i], "target_rot_speed",
                                   OrientSpeed(-th[i], positions[i], duration))]
   ELSE << >>)
    \o [i \in 1..3 |-> Write(disks[i], "target_rot_position", -th[i])]
    \o (IF wait THEN << Sleep(duration) >> ELSE << >>)

orient ==
  /\ pc = "idle"
  /\ \E th \in ThetaTriples, duration \in OrientDurations,
        wait \in BOOLEAN, positions \in PositionReads :
       /\ thetas' = th
       /\ orient_args' = [called |-> TRUE, duration |-> duration, wait |-> wait]
       /\ \E failAt \in FailChoices(OrientCmds(th, duration, wait, positions)) :
            Run(OrientCmds(th, duration, wait, positions), failAt, "new", "idle")
  /\ op' = "orient"
  /\ HomingVarsUnchanged /\ HandlesUnchanged /\ MotorUnchanged

\* OrbitaActuator.setup, called again on a constructed actuator
setup ==
  /\ pc = "idle"
  /\ \E s \in SpeedValues :
       LET cmds == SetupCmds(disks, "pid", "reduction", "wheel_size",
                             "encoder_res", Frac(s, 1))
       IN  \E failAt \in FailChoices(cmds) : Run(cmds, failAt, "new", "idle")
  /\ op' = "setup"
  /\ HomingVarsUnchanged /\ HandlesUnchanged /\ MotorUnchanged /\ thetas' = NoThetas /\ orient_args' = NoOrientArgs

\* ---------------------------------------------------------------- homing
\* recent_speed = deque([], 10); setToZero on every disk; sleep
HomingZeroCmds ==
  [i \in 1..3 |-> SetToZero(disks[i])] \o << Sleep(Frac(1, 10)) >>

homing_zero ==
  /\ pc = "idle"
  /\ \E failAt \in FailChoices(HomingZeroCmds) :
       Run(HomingZeroCmds, failAt, "new", "engage")
  /\ \E speed \in SpeedValues, limit_pos \in LimitPositions,
        target_pos \in TargetPositions :
       HomingLocals(<< >>,
                    [speed |-> speed, limit_pos |-> limit_pos, target_pos |-> target_pos],
                    0, 0, FALSE)
  /\ op' = "homing"
  /\ HandlesUnchanged /\ MotorUnchanged /\ thetas' = NoThetas /\ orient_args' = NoOrientArgs

\* self.compliant = False; sleep
HomingEngageCmds == CompliantCmds(FALSE) \o << Sleep(Frac(1, 10)) >>

homing_engage ==
  /\ pc = "engage"
  /\ \E failAt \in FailChoices(HomingEngageCmds) :
       Run(HomingEngageCmds, failAt, "append", "drive")
  /\ UNCHANGED op
  /\ KeepLocals /\ HandlesUnchanged /\ MotorUnchanged /\ UNCHANGED << thetas, orient_args >>

\* target speed and limit position to every disk; sleep(1)
HomingDriveCmdsOf(d, speed, limit_pos) ==
  << Write(d, "target_rot_speed", Frac(speed, 1)),
     Write(d, "target_rot_position", limit_pos) >>

HomingDriveCmds(speed, limit_pos) ==
  HomingDriveCmdsOf(disks[1], speed, limit_pos)
    \o HomingDriveCmdsOf(disks[2], speed, limit_pos)
    \o HomingDriveCmdsOf(disks[3], speed, limit_pos)
    \o << Sleep(Frac(1, 1)) >>

homing_drive ==
  /\ pc = "drive"
  /\ \E failAt \in FailChoices(HomingDriveCmds(locals.speed, locals.limit_pos)) :
       Run(HomingDriveCmds(locals.speed, locals.limit_pos), failAt, "append", "stall")
  /\ UNCHANGED op
  /\ KeepLocals /\ HandlesUnchanged /\ MotorUnchanged /\ UNCHANGED << thetas, orient_args >>

\* a deque that keeps one sample more
DequeAppendOneMore(q, x) ==
  IF Len(q) < WindowLen + 1 THEN Append(q, x) ELSE Append(Tail(q), x)

\* deque.append with maxlen = 10: a full deque drops its oldest entry
DequeAppend(q, x) ==
  IF Len(q) < WindowLen THEN Append(q, x) ELSE Append(Tail(q), x)

RECURSIVE SumCol(_, _)
SumCol(q, i) == IF q = << >> THEN 0 ELSE Head(q)[i] + SumCol(Tail(q), i)

\* np.mean(recent_speed, axis=0)
AvgSpeed(q) == [i \in 1..3 |-> Frac(SumCol(q, i), Len(q))]

\* np.any in place of np.all
AnyNonNeg(avg) == \E i \in 1..3 : ~IsNeg(avg[i])

\* np.all(avg_speed >= 0)
AllNonNeg(avg) == \A i \in 1..3 : ~IsNeg(avg[i])

\* the exit test applied only once the window is full
StallExitOnFullWindow(window) ==
  Len(window) = WindowLen /\ AllNonNeg(AvgSpeed(window))

\* avg_speed = np.mean(recent_speed, axis=0); if np.all(avg_speed >= 0): break
StallExit(window) == AllNonNeg(AvgSpeed(window))

PollReads == [i \in 1..3 |-> Read(disks[i], "rot_speed", "-")]

\* One iteration of the while True loop; v are the velocities read. The
\* loop has no bound of its own: bounded makes it stop after MaxPolls polls
\* and log them; unbounded, polls counts no further than WindowLen + 1.
homing_poll(samples, bounded) ==
  /\ pc = "stall"
  /\ bounded => polls < MaxPolls
  /\ \E v \in samples, failAt \in FailChoices(PollReads) :
       \E window \in { DequeAppend(recent_speed, v) } :
         \E exit \in { StallExit(window) } :
           /\ Run(IF failAt = 0 /\ ~exit
                  THEN PollReads \o << Sleep(Frac(1, 100)) >>
                  ELSE PollReads,
                  failAt, IF bounded THEN "append" ELSE "off",
                  IF exit THEN "rezero" ELSE "stall")
           /\ HomingLocals(window, locals,
                           IF bounded \/ polls <= WindowLen THEN polls + 1 ELSE polls,
                           IF \A i \in 1..3 : v[i] >= 0
                           THEN (IF nonnegRun > WindowLen THEN nonnegRun
                                 ELSE nonnegRun + 1)
                           ELSE 0,
                           \/ staleNeg
                           \/ /\ Len(recent_speed) = WindowLen
                              /\ \E i \in 1..3 : recent_speed[1][i] < 0)
  /\ UNCHANGED << op, thetas, orient_args >>
  /\ HandlesUnchanged /\ MotorUnchanged

poll == homing_poll(PollSamples, TRUE)

poll_stall == homing_poll(StallSamples, FALSE)

\* setToZero on every disk; sleep(1)
HomingRezeroCmds ==
  [i \in 1..3 |-> SetToZero(disks[i])] \o << Sleep(Frac(1, 1)) >>

homing_rezero ==
  /\ pc = "rezero"
  /\ \E failAt \in FailChoices(HomingRezeroCmds) :
       Run(HomingRezeroCmds, failAt, "append", "offset")
  /\ UNCHANGED op
  /\ KeepLocals /\ HandlesUnchanged /\ MotorUnchanged /\ UNCHANGED << thetas, orient_args >>

\* target_pos to every disk; sleep(target_pos / speed + 0.25)
HomingOffsetCmds(speed, target_pos) ==
  [i \in 1..3 |-> Write(disks[i], "target_rot_position", target_pos)]
    \o << Sleep(FracAdd(Frac(target_pos, speed), Frac(25, 100))) >>

homing_offset ==
  /\ pc = "offset"
  /\ \E failAt \in FailChoices(HomingOffsetCmds(locals.speed, locals.target_pos)) :
       Run(HomingOffsetCmds(locals.speed, locals.target_pos), failAt, "append", "final_zero")
  /\ UNCHANGED op
  /\ KeepLocals /\ HandlesUnchanged /\ MotorUnchanged /\ UNCHANGED << thetas, orient_args >>

\* the kinematics reset moved before the final zero
HomingFinalZeroCmdsAfterReset ==
  << ResetLastAngles >> \o [i \in 1..3 |-> SetToZero(disks[i])] \o << Sleep(Frac(1, 10)) >>

\* setToZero on every disk; sleep(0.1)
HomingFinalZeroCmds ==
  [i \in 1..3 |-> SetToZero(disks[i])] \o << Sleep(Frac(1, 10)) >>

homing_final_zero ==
  /\ pc = "final_zero"
  /\ \E failAt \in FailChoices(HomingFinalZeroCmds) :
       Run(HomingFinalZeroCmds, failAt, "append", "reset")
  /\ UNCHANGED op
  /\ KeepLocals /\ HandlesUnchanged /\ MotorUnchanged /\ UNCHANGED << thetas, orient_args >>

\* homing's last phase without the kinematics reset
HomingResetCmdsNoReset(th, positions) ==
  OrientCmds(th, Frac(-1, 1), TRUE, positions)

\* self.model.reset_last_angles(); self.orient(Quaternion(1, 0, 0, 0), wait=True)
\* th is the solver's output for the identity; duration keeps its default -1
HomingResetCmds(th, positions) ==
  << ResetLastAngles >> \o OrientCmds(th, Frac(-1, 1), TRUE, positions)

homing_reset ==
  /\ pc = "reset"
  /\ \E th \in ThetaTriples, positions \in PositionReads :
       /\ thetas' = th
       /\ orient_args' = [called |-> TRUE, duration |-> Frac(-1, 1), wait |-> TRUE]
       /\ \E failAt \in FailChoices(HomingResetCmds(th, positions)) :
            Run(HomingResetCmds(th, positions), failAt, "append", "idle")
  /\ UNCHANGED op
  /\ KeepLocals /\ HandlesUnchanged /\ MotorUnchanged

\* ------------------------------------------------------- DynamixelMotor
\* self of a DynamixelMotor, as far as the frame transform reads it
MotorSelf == [offset |-> offset, direct |-> direct]

is_direct(self) == self.direct

_as_local_pos(self, pos) == (IF is_direct(self) THEN pos ELSE -pos) - self.offset

\* the offset added after the orientation is applied
_to_motor_pos_offset_last(self, pos) ==
  pos * (IF is_direct(self) THEN 1 ELSE -1) + self.offset

_to_motor_pos(self, pos) == (pos + self.offset) * (IF is_direct(self) THEN 1 ELSE -1)

\* the luos register a position property of the motor reads
RegisterOf(property) ==
  IF property = "present_position" THEN "rot_position" ELSE "target_rot_position"

\* the calls goto makes on the trajectory generator it builds
Construct(cls, start, goal, duration) ==
  [kind |-> "construct", disk |-> cls, reg |-> "__init__", val |-> << start, goal, duration >>]
StartPlayer(cls) == [kind |-> "start", disk |-> cls, reg |-> "start", val |-> "self"]
WaitPlayer(cls) == [kind |-> "wait", disk |-> cls, reg |-> "wait", val |-> "-"]

\* goto's table of interpolation modes
interpolations == [linear |-> "Linear", minjerk |-> "MinimumJerk"]

\* the message's tuple of the available modes
available == << "linear", "minjerk" >>

\* goto reading its starting point before it looks at the mode
GotoStepsReadFirst(self, goal_position, duration, starting_point, wait, interpolation_mode, raw) ==
  << Read("motor", RegisterOf(starting_point), raw) >>
    \o (IF interpolation_mode \notin DOMAIN interpolations THEN << >>
        ELSE << Construct(interpolations[interpolation_mode],
                          _as_local_pos(self, raw), goal_position, duration),
                StartPlayer(interpolations[interpolation_mode]) >>
               \o (IF wait THEN << WaitPlayer(interpolations[interpolation_mode]) >> ELSE << >>))

\* goto waiting on the generator whatever wait is
GotoStepsAlwaysWait(self, goal_position, duration, starting_point, wait, interpolation_mode, raw) ==
  IF interpolation_mode \notin DOMAIN interpolations THEN << >>
  ELSE << Read("motor", RegisterOf(starting_point), raw),
          Construct(interpolations[interpolation_mode],
                    _as_local_pos(self, raw), goal_position, duration),
          StartPlayer(interpolations[interpolation_mode]),
          WaitPlayer(interpolations[interpolation_mode]) >>

\* the bus access and the generator calls of goto, in order; raw is what the
\* luos motor returns for the register of the starting point
GotoSteps(self, goal_position, duration, starting_point, wait, interpolation_mode, raw) ==
  IF interpolation_mode \notin DOMAIN interpolations THEN << >>
  ELSE << Read("motor", RegisterOf(starting_point), raw),
          Construct(interpolations[interpolation_mode],
                    _as_local_pos(self, raw), goal_position, duration),
          StartPlayer(interpolations[interpolation_mode]) >>
         \o (IF wait THEN << WaitPlayer(interpolations[interpolation_mode]) >> ELSE << >>)

MotorConfigUnchanged == UNCHANGED << offset, direct >>

\* present_position: reads rot_position (raw, or the read fails)
get_present_position(raw, fail) ==
  /\ mop' = "present_position"
  /\ margs' = << >>
  /\ mlog' = << Read("motor", "rot_position", raw) >>
  /\ mresult' = IF fail THEN "HardwareIOError" ELSE "returned"
  /\ mret' = IF fail THEN "-" ELSE _as_local_pos(MotorSelf, raw)
  /\ MotorConfigUnchanged /\ UNCHANGED motor_hw
  /\ UNCHANGED actuatorVars

\* goal_position (getter): reads the stored target_rot_position
get_goal_position(fail) ==
  /\ mop' = "goal_position"
  /\ margs' = << >>
  /\ mlog' = << Read("motor", "target_rot_position", motor_hw.target_rot_position) >>
  /\ mresult' = IF fail THEN "HardwareIOError" ELSE "returned"
  /\ mret' = IF fail THEN "-" ELSE _as_local_pos(MotorSelf, motor_hw.target_rot_position)
  /\ MotorConfigUnchanged /\ UNCHANGED motor_hw
  /\ UNCHANGED actuatorVars

\* goal_position (setter): writes target_rot_position
set_goal_position(value, fail) ==
  /\ mop' = "set_goal_position"
  /\ margs' = [value |-> value]
  /\ mlog' = << Write("motor", "target_rot_position", _to_motor_pos(MotorSelf, value)) >>
  /\ mresult' = IF fail THEN "HardwareIOError" ELSE "returned"
  /\ mret' = "-"
  /\ motor_hw' = IF fail THEN motor_hw
                 ELSE [motor_hw EXCEPT !.target_rot_position = _to_motor_pos(MotorSelf, value)]
  /\ MotorConfigUnchanged
  /\ UNCHANGED actuatorVars

\* goto(goal_position, duration, starting_point, wait, interpolation_mode)
goto(goal_position, duration, starting_point, wait, interpolation_mode, raw, fail) ==
  /\ \E steps \in { GotoSteps(MotorSelf, goal_position, duration, starting_point, wait,
                               interpolation_mode,
                               IF starting_point = "present_position" THEN raw
                               ELSE motor_hw.target_rot_position) } :
       \E failed \in { fail /\ steps # << >> /\ steps[1].kind = "read" } :
         /\ mlog' = IF failed THEN SubSeq(steps, 1, 1) ELSE steps
         /\ mresult' = IF failed THEN "HardwareIOError"
                       ELSE IF interpolation_mode \notin DOMAIN interpolations
                            THEN "ValueError" ELSE "returned"
         /\ mret' = IF failed THEN "-"
                    ELSE IF interpolation_mode \notin DOMAIN interpolations THEN available
                    ELSE [cls |-> interpolations[interpolation_mode],
                          args |-> << _as_local_pos(MotorSelf,
                                        IF starting_point = "present_position" THEN raw
                                        ELSE motor_hw.target_rot_position),
                                      goal_position, duration >>]
  /\ mop' = "goto"
  /\ margs' = [goal_position |-> goal_position, duration |-> duration,
               starting_point |-> starting_point, wait |-> wait,
               interpolation_mode |-> interpolation_mode]
  /\ MotorConfigUnchanged /\ UNCHANGED motor_hw
  /\ UNCHANGED actuatorVars

\* ---------------------------------------------------------- specifications
Next ==
  \/ set_compliant
  \/ set_moving_speed
  \/ point_at
  \/ orient
  \/ setup
  \/ homing_zero
  \/ homing_engage
  \/ homing_drive
  \/ poll
  \/ homing_rezero
  \/ homing_offset
  \/ homing_final_zero
  \/ homing_reset

Spec == Init /\ [][Next]_vars

\* The stall loop on its own: a homing call with its default arguments on a
\* newly constructed actuator, taken up where it enters the while loop.
InitStall ==
  /\ disk_bottom = luos_disks_motor[1]
  /\ disk_middle = luos_disks_motor[2]
  /\ disk_top = luos_disks_motor[3]
  /\ \E st \in { ApplyAll(Constructed([h \in Handles |-> TRUE]),
                           HomingZeroCmds \o HomingEngageCmds
                             \o HomingDriveCmds(DefaultHomingSpeed, DefaultLimitPos)) } :
       /\ compliancy = st.compliancy
       /\ moving_speed = st.moving_speed
       /\ hw = st.hw
  /\ recent_speed = << >>
  /\ locals = [speed |-> DefaultHomingSpeed, limit_pos |-> DefaultLimitPos,
               target_pos |-> DefaultTargetPos]
  /\ pc = "stall"
  /\ op = "homing"
  /\ result = "running"
  /\ log = HomingZeroCmds \o HomingEngageCmds
             \o HomingDriveCmds(DefaultHomingSpeed, DefaultLimitPos)
  /\ thetas = NoThetas
  /\ orient_args = NoOrientArgs
  /\ polls = 0
  /\ nonnegRun = 0
  /\ staleNeg = FALSE
  /\ failures = 0
  /\ MotorConstructed(0, TRUE, 0)

NextStall == poll_stall

SpecStall == InitStall /\ [][NextStall]_vars

\* a DynamixelMotor of any of the configurations, next to an actuator left alone
InitMotor ==
  /\ InitActuator({ [h \in Handles |-> FALSE] })
  /\ \E config \in MotorConfigs : \E target \in RawPositions :
       MotorConstructed(config.offset, config.direct, target)

NextMotor ==
  \/ \E raw \in RawPositions : \E fail \in BOOLEAN : get_present_position(raw, fail)
  \/ \E fail \in BOOLEAN : get_goal_position(fail)
  \/ \E value \in LocalPositions : \E fail \in BOOLEAN : set_goal_position(value, fail)
  \/ \E goal \in LocalPositions : \E duration \in GotoDurations :
       \E starting_point \in StartingPoints : \E wait \in BOOLEAN :
         \E interpolation_mode \in ModeNames : \E raw \in RawPositions :
           \E fail \in BOOLEAN :
             goto(goal, duration, starting_point, wait, interpolation_mode, raw, fail)

SpecMotor == InitMotor /\ [][NextMotor]_vars

\* ------------------------------------------------------------ properties
\* the last operation called is homing and it is over
HomingOver == op = "homing" /\ pc = "idle"

\* the homing call is over and none of its bus accesses failed
HomingBusOk == HomingOver /\ result # "HardwareIOError"

\* C1: a homing call whose bus accesses all succeed and whose stall loop has
\* exited ends by returning normally to its caller, not in an error.
C1_HomingReturnsNormally == HomingBusOk => result = "returned"

\* what kind of access a log entry is, for the order of homing's phases
Class(e) ==
  CASE e.kind = "call" /\ e.reg = "setToZero" -> "zero"
    [] e.kind = "write" /\ e.reg = "compliant" -> "compliant"
    [] e.kind = "write" /\ e.reg = "target_rot_speed" -> "speed"
    [] e.kind = "write" /\ e.reg = "target_rot_position" -> "position"
    [] e.kind = "read" /\ e.reg = "rot_speed" -> "poll"
    [] e.kind = "reset" -> "reset"
    [] OTHER -> "none"

\* how many entries of the class of entry i the log has up to i
Ordinal(i) ==
  Cardinality({ j \in 1..i : Class(log[j]) = Class(log[i]) })

\* the homing phase (1..9) entry i belongs to by its class and ordinal,
\* 0 for sleeps and cache updates
PhaseOf(i) ==
  CASE Class(log[i]) = "zero" ->
         (IF Ordinal(i) <= 3 THEN 1 ELSE IF Ordinal(i) <= 6 THEN 5 ELSE 7)
    [] Class(log[i]) = "compliant" -> 2
    [] Class(log[i]) = "speed" -> 3
    [] Class(log[i]) = "position" ->
         (IF Ordinal(i) <= 3 THEN 3 ELSE IF Ordinal(i) <= 6 THEN 6 ELSE 9)
    [] Class(log[i]) = "poll" -> 4
    [] Class(log[i]) = "reset" -> 8
    [] OTHER -> 0

\* the disks phase p has acted on with accesses of class c, up to entry i
Touched(p, c, i) ==
  { log[j].disk : j \in { k \in 1..i : PhaseOf(k) = p /\ Class(log[k]) = c } }

\* phase p has acted on all three disks before entry i
PhaseDone(p, i) ==
  CASE p \in { 1, 5, 7 } -> Touched(p, "zero", i) = Handles
    [] p = 2 -> Touched(p, "compliant", i) = Handles
    [] p = 3 -> Touched(p, "speed", i) = Handles /\ Touched(p, "position", i) = Handles
    [] p = 4 -> Touched(p, "poll", i) = Handles
    [] p = 6 -> Touched(p, "position", i) = Handles
    [] p = 8 -> \E j \in 1..i : Class(log[j]) = "reset"
    [] OTHER -> TRUE

\* C2: the accesses of a homing call come phase by phase, zero, engage,
\* drive to limit, stall loop, re-zero, drive to offset, final zero,
\* kinematics reset, orient; an access of a phase comes only after every
\* earlier phase has acted on all three disks, no second setToZero comes
\* while the stall loop runs, and the reset comes after the ninth setToZero.
C2_HomingPhaseOrder ==
  op = "homing" =>
    /\ \A i \in 1..Len(log) : \A j \in i..Len(log) :
         PhaseOf(i) # 0 /\ PhaseOf(j) # 0 => PhaseOf(i) <= PhaseOf(j)
    /\ \A i \in 1..Len(log) : \A p \in 1..8 :
         PhaseOf(i) > p => PhaseDone(p, i - 1)
    /\ pc \in { "engage", "drive", "stall" } =>
         \A i \in 1..Len(log) : PhaseOf(i) <= 4
    /\ \A i \in 1..Len(log) :
         Class(log[i]) = "reset" =>
           Cardinality({ j \in 1..i : Class(log[j]) = "zero" }) = 9

\* C2 witness: a homing call has gone through all its phases up to the
\* position writes of the final orient.
C2_Witness ==
  /\ HomingOver
  /\ \E i \in 1..Len(log) : PhaseOf(i) = 9 /\ Ordinal(i) = 9

\* C3: a poll of the stall loop whose reads succeed ends the loop if and
\* only if the mean of the samples now in the window is non-negative for
\* each of the three disks; otherwise the loop goes on, whatever the number
\* of polls made so far.
C3_StallExitRule ==
  [][ (pc = "stall" /\ result' # "HardwareIOError") =>
        /\ pc' \in { "stall", "rezero" }
        /\ Len(recent_speed') > 0
        /\ (pc' = "rezero") <=>
             (\A i \in 1..3 :
                SumCol(recent_speed', i) * 1 >= 0 * Len(recent_speed')) ]_vars

\* C3 witness: the loop has exited after more than one poll with a negative
\* sample still in the window.
C3_Witness ==
  /\ pc = "rezero"
  /\ polls >= 2
  /\ \E k \in 1..Len(recent_speed) : \E i \in 1..3 : recent_speed[k][i] < 0

\* C4: the window holds the 10 latest samples and no more, and the loop is
\* never still running after a poll that made the 10 latest samples of all
\* three disks non-negative, whatever the samples before them were.
C4_WindowOfTen ==
  /\ Len(recent_speed) = (IF polls <= WindowLen THEN polls ELSE WindowLen)
  /\ pc = "stall" => nonnegRun < WindowLen

\* C4 witness: the loop has exited on the tenth non-negative sample in a
\* row after a negative sample had left the window.
C4_Witness ==
  /\ pc = "rezero"
  /\ staleNeg
  /\ nonnegRun = WindowLen
  /\ polls > WindowLen

\* the index of the kinematics reset in the log
ResetIndex == CHOOSE i \in 1..Len(log) : log[i].kind = "reset"

\* C5: when a homing call is over and none of its bus accesses failed, the
\* cached compliant is false, the call has reset the kinematics reference
\* exactly once and has then written the three position targets of the
\* orient to the identity.
C5_HomingEndState ==
  HomingBusOk =>
    /\ compliancy = FALSE
    /\ Cardinality({ i \in 1..Len(log) : log[i].kind = "reset" }) = 1
    /\ Len(log) >= ResetIndex + 3
    /\ \A i \in 1..3 :
         /\ log[ResetIndex + i].kind = "write"
         /\ log[ResetIndex + i].reg = "target_rot_position"
         /\ log[ResetIndex + i].disk = << disk_top, disk_middle, disk_bottom >>[i]
         /\ log[ResetIndex + i].val = -thetas[i]
         /\ hw[<< disk_top, disk_middle, disk_bottom >>[i]].target_rot_position = -thetas[i]

\* C5 witness: a homing call is over, none of its bus accesses failed.
C5_Witness == HomingBusOk /\ failures = 0

\* the disks the bus accesses of the log go to, in order
RECURSIVE DisksOf(_)
DisksOf(l) ==
  IF l = << >> THEN << >>
  ELSE IF IsBusAccess(Head(l)) THEN << Head(l).disk >> \o DisksOf(Tail(l))
  ELSE DisksOf(Tail(l))

\* C6 (as claimed): disks() returns the handles in the order the constructor
\* received them.
C6_DisksInConstructorOrder == disks = luos_disks_motor

\* C6 (amended): the constructor takes its handles as (bottom, middle, top),
\* so disks() returns them in the reverse of the order they were passed in,
\* and the setters and point_at go through them in that order, the i-th
\* angle of the solver going to the i-th of them.
C6_DisksReverseConstructorOrder ==
  /\ disks = << luos_disks_motor[3], luos_disks_motor[2], luos_disks_motor[1] >>
  /\ (op \in { "set_compliant", "set_moving_speed", "point_at" } /\ result = "returned") =>
       DisksOf(log) = << luos_disks_motor[3], luos_disks_motor[2], luos_disks_motor[1] >>
  /\ (op = "point_at" /\ result = "returned") =>
       \A i \in 1..3 : hw[luos_disks_motor[4 - i]].target_rot_position = -thetas[i]

\* C6 witness: a point_at has returned.
C6_Witness == op = "point_at" /\ result = "returned" /\ thetas \in ThetaTriples

\* C7: point_at makes one write per disk, top, middle, bottom, of the
\* position target, its value the negation of the solver's output for that
\* disk, and nothing else; a point_at that fails has made the first of them.
C7_PointAtNegates ==
  op = "point_at" =>
    /\ Len(log) <= 3
    /\ result = "returned" => Len(log) = 3
    /\ \A i \in 1..Len(log) :
         /\ log[i].kind = "write"
         /\ log[i].reg = "target_rot_position"
         /\ log[i].disk = << disk_top, disk_middle, disk_bottom >>[i]
         /\ log[i].val = -thetas[i]
         /\ (result = "returned" \/ i < Len(log)) =>
              hw[log[i].disk].target_rot_position = -thetas[i]

\* C7 witness: a point_at has returned for a solver output with angles of
\* both signs.
C7_Witness ==
  /\ op = "point_at"
  /\ result = "returned"
  /\ \E i \in 1..3 : thetas[i] > 0
  /\ \E i \in 1..3 : thetas[i] < 0

\* the log of a setter that has returned: the cache update, then one write
\* of reg per disk, top, middle, bottom, all of the same value
SetterLog(reg) ==
  /\ Len(log) = 4
  /\ log[1].kind = "cache"
  /\ \A i \in 1..3 :
       /\ log[i + 1].kind = "write"
       /\ log[i + 1].reg = reg
       /\ log[i + 1].disk = << disk_top, disk_middle, disk_bottom >>[i]
       /\ log[i + 1].val = log[1].val
       /\ hw[log[i + 1].disk][reg] = log[1].val

\* C8: a compliant or moving_speed setter that returns has written the
\* value to the disks top, middle, bottom, one write each and no other
\* register, every disk holds it and the cached value equals it.
C8_SettersFanOut ==
  /\ (op = "set_compliant" /\ result = "returned") =>
       SetterLog("compliant") /\ compliancy = log[1].val
  /\ (op = "set_moving_speed" /\ result = "returned") =>
       SetterLog("target_rot_speed") /\ moving_speed = log[1].val

\* C8 witness: the compliant setter has returned after writing true to the
\* three disks.
C8_Witness ==
  /\ op = "set_compliant"
  /\ result = "returned"
  /\ compliancy = TRUE
  /\ \A h \in Handles : hw[h].compliant = TRUE

\* the writes a failed compliant setter has attempted, the failing one last
AttemptedWrites(l) == { i \in 1..Len(l) : l[i].kind = "write" }

\* C9: when the write to disk k fails in the compliant setter, the disks
\* before k hold the new flag, disk k and the disks after it keep the flag
\* they had, the failing write is the last access made and the caller gets
\* the error.
C9_PartialCompliance ==
  [][ (pc = "idle" /\ op' = "set_compliant" /\ result' = "HardwareIOError") =>
        LET n == Cardinality(AttemptedWrites(log'))
        IN  /\ n \in 1..3
            /\ Len(log') = n + 1
            /\ log'[n + 1].kind = "write"
            /\ log'[n + 1].disk = << disk_top, disk_middle, disk_bottom >>[n]
            /\ pc' = "idle"
            /\ \A i \in 1..3 :
                 hw'[<< disk_top, disk_middle, disk_bottom >>[i]].compliant =
                   IF i < n THEN log'[1].val
                   ELSE hw[<< disk_top, disk_middle, disk_bottom >>[i]].compliant ]_vars

\* C9 witness: the compliant setter has failed on the bottom disk, leaving
\* it with a flag the top and middle disks no longer hold.
C9_Witness ==
  /\ op = "set_compliant"
  /\ result = "HardwareIOError"
  /\ Len(log) = 4
  /\ hw[disk_top].compliant = log[1].val
  /\ hw[disk_middle].compliant = log[1].val
  /\ hw[disk_bottom].compliant # log[1].val

\* C10: whenever no operation is running and no bus access has failed, the
\* three disks hold the same compliance flag and it is the cached one.
C10_ComplianceActuatorLevel ==
  (pc = "idle" /\ failures = 0) =>
    \A h \in Handles : hw[h].compliant = compliancy

\* C11: whenever an operation has returned and no bus access has failed, the
\* three disks have the same target speed and it is the cached moving_speed.
C11_SpeedActuatorLevel ==
  (pc = "idle" /\ result = "returned" /\ failures = 0) =>
    \A h \in Handles : hw[h].target_rot_speed = moving_speed

\* C12: a goto called with an interpolation mode that is not one of the two
\* known names ends in a ValueError whose message lists exactly the known
\* names, and makes no bus access and no generator call at all (the starting
\* point is not read, nothing is constructed or started, no register changes).
C12_GotoRejectsUnknownMode ==
  [][(mop' = "goto" /\ margs'.interpolation_mode \notin { "linear", "minjerk" }) =>
       /\ mresult' = "ValueError"
       /\ { mret'[i] : i \in DOMAIN mret' } = { "linear", "minjerk" }
       /\ mlog' = << >>
       /\ motor_hw' = motor_hw]_vars

C12_Witness ==
  /\ mop = "goto"
  /\ margs.interpolation_mode = "bogus"
  /\ mresult = "ValueError"
  /\ mlog = << >>

\* C13: a goto called with a known interpolation mode whose starting-point
\* read succeeds reads the starting point once, constructs exactly one
\* generator, of the class of the mode, with (starting point in the local
\* frame, goal, duration), then starts it on this motor, then calls its wait if
\* and only if wait is true, and returns that generator whether it waited or
\* not; with the default starting point the value is the local-frame
\* present position read during the call.
C13_GotoRunsOneGenerator ==
  (mop = "goto" /\ margs.interpolation_mode \in { "linear", "minjerk" }) =>
    /\ mresult \in { "returned", "HardwareIOError" }
    /\ mresult = "returned" =>
         /\ Len(mlog) = IF margs.wait THEN 4 ELSE 3
         /\ Cardinality({ i \in DOMAIN mlog : mlog[i].kind = "construct" }) = 1
         /\ mlog[1].kind = "read"
         /\ margs.starting_point = "present_position" => mlog[1].reg = "rot_position"
         /\ margs.starting_point = "goal_position" =>
              /\ mlog[1].reg = "target_rot_position"
              /\ mlog[1].val = motor_hw.target_rot_position
         /\ mlog[2].kind = "construct"
         /\ mlog[2].disk = (IF margs.interpolation_mode = "linear"
                            THEN "Linear" ELSE "MinimumJerk")
         /\ mlog[2].val = << (IF direct THEN mlog[1].val ELSE -mlog[1].val) - offset,
                             margs.goal_position, margs.duration >>
         /\ mlog[3].kind = "start" /\ mlog[3].val = "self"
         /\ margs.wait => mlog[4].kind = "wait"
         /\ mret = [cls |-> mlog[2].disk, args |-> mlog[2].val]

C13_Witness ==
  /\ mop = "goto"
  /\ margs.interpolation_mode = "minjerk"
  /\ margs.starting_point = "present_position"
  /\ margs.wait
  /\ ~direct
  /\ mresult = "returned"
  /\ Len(mlog) = 4
  /\ mlog[4].kind = "wait"

\* the frame transform is an inverse pair for every offset, orientation and
\* position of the bounded domain, and gives the two worked values
FrameInversePair ==
  /\ \A off \in Offsets : \A dir \in BOOLEAN : \A p \in Positions :
       LET self == [offset |-> off, direct |-> dir] IN
         /\ _as_local_pos(self, p) = (IF dir THEN p ELSE -p) - off
         /\ _to_motor_pos(self, p) = (p + off) * (IF dir THEN 1 ELSE -1)
         /\ _to_motor_pos(self, _as_local_pos(self, p)) = p
         /\ _as_local_pos(self, _to_motor_pos(self, p)) = p
  /\ _as_local_pos([offset |-> 10, direct |-> TRUE], 40) = 30
  /\ _to_motor_pos([offset |-> 10, direct |-> TRUE], 30) = 40
  /\ _as_local_pos([offset |-> 10, direct |-> FALSE], 40) = -50
  /\ _to_motor_pos([offset |-> 10, direct |-> FALSE], -50) = 40

\* C14: _as_local_pos and _to_motor_pos are exact inverses of each other for
\* every offset, orientation and integer position of the bounded domain
\* (direct, offset 10: raw 40 <-> local 30; reversed, offset 10: raw 40 <->
\* local -50), the register written by the goal_position setter holds the raw
\* image of the value set, and a goal_position read that follows a successful
\* goal_position write of v returns v.
C14_FrameRoundTrip ==
  /\ [](FrameInversePair
        /\ ((mop = "set_goal_position" /\ mresult = "returned") =>
              _as_local_pos(MotorSelf, motor_hw.target_rot_position) = margs.value))
  /\ [][(mop = "set_goal_position" /\ mresult = "returned"
           /\ mop' = "goal_position" /\ mresult' = "returned") =>
          mret' = margs.value]_vars

C14_Witness ==
  /\ mop = "goal_position"
  /\ mresult = "returned"
  /\ ~direct /\ offset = 10
  /\ motor_hw.target_rot_position = 40
  /\ mret = -50

\* C15: an orient call whose bus accesses all succeeded, when its duration is
\* positive, has read the position of each disk, then written to each disk
\* the target speed |(-theta) - position read| / duration, which is not
\* negative, every speed write coming before the position-target write of the
\* same disk, and the disks hold these speeds; when its duration is zero or
\* negative (the default) it has written the three position targets -theta
\* and has neither read a position nor written a target speed.
C15_OrientSpeeds ==
  (op = "orient" /\ pc = "idle" /\ result # "HardwareIOError") =>
    IF orient_args.duration[1] > 0
    THEN /\ Len(log) >= 9
         /\ \A i \in 1..3 :
              /\ log[i].kind = "read" /\ log[i].reg = "rot_position"
              /\ log[i].disk = << disk_top, disk_middle, disk_bottom >>[i]
              /\ log[3 + i].kind = "write" /\ log[3 + i].reg = "target_rot_speed"
              /\ log[3 + i].disk = log[i].disk
              /\ log[3 + i].val = Frac(Abs((-thetas[i]) - log[i].val) * orient_args.duration[2],
                                       orient_args.duration[1])
              /\ log[3 + i].val[1] >= 0
              /\ hw[log[i].disk].target_rot_speed = log[3 + i].val
              /\ log[6 + i].kind = "write" /\ log[6 + i].reg = "target_rot_position"
              /\ log[6 + i].disk = log[i].disk
              /\ log[6 + i].val = -thetas[i]
         /\ \A j, k \in DOMAIN log :
              (log[j].reg = "target_rot_speed" /\ log[k].reg = "target_rot_position"
                 /\ log[j].disk = log[k].disk) => j < k
    ELSE /\ Len(log) >= 3
         /\ \A i \in 1..3 :
              /\ log[i].kind = "write" /\ log[i].reg = "target_rot_position"
              /\ log[i].disk = << disk_top, disk_middle, disk_bottom >>[i]
              /\ log[i].val = -thetas[i]
         /\ \A j \in DOMAIN log :
              log[j].kind # "read" /\ log[j].reg # "target_rot_speed"

\* a disk at 0 sent to 1 in 2 gets the speed 1/2
C15_Witness ==
  /\ op = "orient" /\ pc = "idle" /\ result = "returned"
  /\ orient_args.duration = << 2, 1 >>
  /\ log[1].val = 0
  /\ log[7].val = 1
  /\ log[4].val = << 1, 2 >>
  /\ hw[disk_top].target_rot_speed = << 1, 2 >>

\* C16: an orient call whose bus accesses all succeeded returns normally; it
\* has slept, once and for exactly its duration, when wait is true and the
\* duration is positive, and has asked for no sleep other than one of length
\* zero otherwise.
C16_OrientBlocksOnlyForDuration ==
  (op = "orient" /\ pc = "idle" /\ result # "HardwareIOError") =>
    /\ result = "returned"
    /\ IF orient_args.wait /\ orient_args.duration[1] > 0
       THEN /\ Cardinality({ i \in DOMAIN log : log[i].kind = "sleep" }) = 1
            /\ log[Len(log)].kind = "sleep"
            /\ log[Len(log)].val = orient_args.duration
       ELSE \A i \in DOMAIN log : log[i].kind = "sleep" => log[i].val[1] = 0

\* the registers setup writes before the zero-reference of a disk
SetupBeforeZero ==
  { "limit_current", "encoder_res", "reduction", "wheel_size", "positionPid",
    "rot_position_mode", "rot_speed_mode" }

\* C17: in the accesses of setup (run by the constructor or called again),
\* for every disk: the zero-reference comes after the writes of the current
\* limit (2/5), encoder resolution, reduction, wheel size, PID and of TRUE to
\* both mode flags of that disk; the entry after a zero-reference is a sleep
\* of 1/10; a target-speed write comes right after that sleep. No operation
\* ever clears a mode flag, and in every state both mode flags of every disk
\* are on, so every target-speed or target-position write of a later
\* operation reaches a disk with both modes enabled.
C17_SetupOrdering ==
  /\ \A h \in Handles : hw[h].rot_position_mode /\ hw[h].rot_speed_mode
  /\ \A j \in DOMAIN log :
       log[j].reg \in { "rot_position_mode", "rot_speed_mode" } => log[j].val = TRUE
  /\ op \in { "__init__", "setup" } =>
       \A j \in DOMAIN log :
         /\ (log[j].kind = "call" /\ log[j].reg = "setToZero") =>
              /\ \A r \in SetupBeforeZero :
                   \E i \in 1..(j - 1) :
                     /\ log[i].kind = "write" /\ log[i].reg = r /\ log[i].disk = log[j].disk
                     /\ r = "limit_current" => log[i].val = << 2, 5 >>
              /\ \A i \in DOMAIN log :
                   (log[i].disk = log[j].disk /\ log[i].reg \in SetupBeforeZero) => i < j
              /\ j < Len(log) => (log[j + 1].kind = "sleep" /\ log[j + 1].val = << 1, 10 >>)
         /\ (log[j].kind = "write" /\ log[j].reg = "target_rot_speed") =>
              /\ j > 2
              /\ log[j - 1].kind = "sleep" /\ log[j - 1].val = << 1, 10 >>
              /\ log[j - 2].kind = "call" /\ log[j - 2].reg = "setToZero"
              /\ log[j - 2].disk = log[j].disk

C17_Witness ==
  /\ op = "setup" /\ pc = "idle" /\ result = "returned"
  /\ Len(log) = 36
  /\ \A h \in Handles : hw[h].target_rot_speed = << 20, 1 >>

\* a homing call's bus error has been raised to the caller
HomingFailed == HomingOver /\ result = "HardwareIOError"

\* the failed homing stopped at the failing access: that access is the last
\* entry, it was tried once, nothing of a later phase follows it, and the
\* kinematics reset has run only if the failure is in the final orient
HomingStoppedAtFailure ==
  /\ log # << >>
  /\ log[Len(log)].kind \in { "read", "write", "call" }
  /\ \A i \in 1..Len(log) : PhaseOf(i) <= PhaseOf(Len(log))
  /\ Cardinality({ i \in 1..Len(log) :
                     /\ log[i].kind = log[Len(log)].kind
                     /\ log[i].reg = log[Len(log)].reg
                     /\ log[i].disk = log[Len(log)].disk
                     /\ PhaseOf(i) = PhaseOf(Len(log))
                     /\ PhaseOf(i) # 4 }) <= 1
  /\ (\E i \in 1..Len(log) : Class(log[i]) = "reset") => PhaseOf(Len(log)) = 9

\* C18: a homing call that a bus error ended stopped at the failing access,
\* without a retry, with no access of a later phase and no kinematics reset,
\* the error was raised to the caller, and the actuator is left in a state
\* that differs from the one a completed homing leaves: a completed homing
\* leaves the cached compliancy FALSE and does not touch any other field of
\* the actuator, so the cached compliancy is not FALSE.
C18_FailedHomingDetectable ==
  HomingFailed => (HomingStoppedAtFailure /\ compliancy # FALSE)

\* what does hold of a failed homing: it stopped at the failing access
FailedHomingStops == HomingFailed => HomingStoppedAtFailure

\* C19: a homing call starts with an empty window; while fewer than
\* WindowLen polls have been made the window holds exactly the samples polled
\* so far, and a poll whose reads succeed leaves the loop if and only if, for
\* every disk, the mean of the samples polled so far, this one included, is
\* not negative; so the first poll leaves the loop if and only if every
\* velocity of the first sample is non-negative.
C19_PartialWindowEvaluated ==
  /\ []((op = "homing" /\ pc \in { "engage", "drive", "stall" } /\ polls = 0) =>
          recent_speed = << >>)
  /\ []((op = "homing" /\ pc \in { "stall", "rezero" } /\ polls < WindowLen) =>
          Len(recent_speed) = polls)
  /\ [][(pc = "stall" /\ pc' \in { "stall", "rezero" } /\ polls' = polls + 1
           /\ polls' < WindowLen) =>
          /\ Len(recent_speed') = polls'
          /\ SubSeq(recent_speed', 1, polls) = recent_speed
          /\ (pc' = "rezero") <=>
               \A i \in 1..3 : Frac(SumCol(recent_speed', i), polls')[1] >= 0
          /\ polls = 0 =>
               ((pc' = "rezero") <=> \A i \in 1..3 : recent_speed'[1][i] >= 0)]_vars

\* the loop was left on the first poll
C19_Witness ==
  /\ op = "homing" /\ pc = "rezero"
  /\ polls = 1
  /\ Len(recent_speed) = 1

\* C20: when a write of the compliant or the moving_speed setter fails, the
\* cache update was the first thing the setter did, before any disk write,
\* so the cached value is the requested one (the value of the failing
\* write) whichever disk failed, the first one included, while the failing
\* disk and the disks after it keep the value they had.
C20_CacheUpdatedFirst ==
  [][ (pc = "idle" /\ op' \in { "set_compliant", "set_moving_speed" }
         /\ result' = "HardwareIOError") =>
        LET n == Cardinality(AttemptedWrites(log'))
            reg == IF op' = "set_compliant" THEN "compliant" ELSE "target_rot_speed"
        IN  /\ n \in 1..3
            /\ log'[1].kind = "cache"
            /\ \A i \in 2..Len(log') : log'[i].kind = "write" /\ log'[i].reg = reg
            /\ (IF op' = "set_compliant" THEN compliancy' ELSE moving_speed')
                 = log'[Len(log')].val
            /\ \A i \in n..3 :
                 hw'[<< disk_top, disk_middle, disk_bottom >>[i]][reg] =
                   hw[<< disk_top, disk_middle, disk_bottom >>[i]][reg] ]_vars

\* the moving_speed setter failed on its first disk: no disk was changed
\* and the cache already reads the requested speed
C20_Witness ==
  /\ op = "set_moving_speed"
  /\ result = "HardwareIOError"
  /\ Len(log) = 2
  /\ moving_speed = log[2].val
  /\ \A h \in Handles : hw[h].target_rot_speed # moving_speed
====
